---- MODULE Spec2Model ----
(***************************************************************************)
(* Model of src/chat-server.js: the Socket.IO chat relay.                  *)
(*                                                                         *)
(* One Node.js thread runs every handler.  A handler runs without          *)
(* interruption up to an `await` of a Firestore call and is resumed when   *)
(* the store answers; answers of different calls arrive in any order, and  *)
(* any call may fail.  Each action below is either the synchronous prefix  *)
(* of a handler (up to its first await) or the store's answer to a pending *)
(* call together with the synchronous code that follows it.  A write takes  *)
(* effect in the store when it is answered with success; a call that fails *)
(* leaves the store as it was.                                             *)
(*                                                                         *)
(* Spec runs the sessions, the presence records and the message relay from *)
(* the start of the server.  SpecLike runs the reactions from a state Spec *)
(* reaches.  SpecHistory runs one history request over a stored log.       *)
(***************************************************************************)
EXTENDS Integers, Sequences, FiniteSets

\* ------------------------------------------------------------------ bounds
\* Total number of events (user:join, message:send, disconnect) the clients
\* issue.
MaxEvents == 3
\* Total number of message:like events the clients issue.
MaxLikes == 3
\* Largest number of documents in a log the history is read from.
MaxLog == 3

\* ------------------------------------------------------------- input sets
Sockets == {"s1", "s2"}
Users == {"u1", "u2"}
PublicHub == "public-hub"
Rooms == {PublicHub, "room-x"}
Contents == {"hello", "bye"}
\* A payload field the client left out: of a string field "undefined", of a
\* numeric field the empty tuple (and <<n>> is the field with value n).
Undefined == "undefined"
\* roomId values of a message:send / messages:history payload.
RoomInputs == {Undefined, "room-x"}
\* action values of a message:like payload.
LikeActions == {"like", "unlike"}
\* limit values of a messages:history payload, and the default of line 291.
LimitInputs == {<<>>, <<1>>, <<2>>}
DefaultLimit == 50
\* limit * 2 of line 297.
OverfetchFactor == 2
\* Creation times of the documents of a log the history is read from.
Times == {1, 2, 3}

VARIABLES
    status,        \* socket -> "connected" | "disconnected"
    activeUsers,   \* the Map socket.id -> session (its userId); line 93
    userRooms,     \* the Map socket.id -> array of rooms; line 94
    adapterRooms,  \* Socket.IO's rooms: room -> sockets in it (socket.join)
    chatPresence,  \* Firestore collection chatPresence: userId -> document
    chatMessages,  \* Firestore collection chatMessages, in order of arrival
    ops,           \* socket -> the handler invocations it started, in arrival order
    received       \* socket -> the packets the client received, in order

vars == <<status, activeUsers, userRooms, adapterRooms, chatPresence,
          chatMessages, ops, received>>

\* ---------------------------------------------------------------- helpers
\* Map.set(k, v) and Map.delete(k) on a function whose DOMAIN is the key set.
MapSet(m, k, v) == [x \in (DOMAIN m) \cup {k} |-> IF x = k THEN v ELSE m[x]]
MapDelete(m, k) == [x \in (DOMAIN m) \ {k} |-> m[x]]
EmptyMap == [x \in {} |-> x]

\* A handler invocation is named by its socket and its place in the
\* socket's arrival order.
OpIds == UNION {{<<s, k>> : k \in DOMAIN ops[s]} : s \in Sockets}
Op(o) == ops[o[1]][o[2]]
OpsOfKind(kind) == {o \in OpIds : Op(o).kind = kind}
Pending(o) == Op(o).pc # "done"
\* The client events handled so far.
Events == Cardinality(OpIds)

StartOp(s, op) == [ops EXCEPT ![s] = Append(@, op)]
EndOp(s, k, outcome) == [ops EXCEPT ![s][k].pc = "done", ![s][k].outcome = outcome]
\* The same, noting in the record (for the properties, the code keeps no
\* such field) the connections that were in the rooms concerned just then.
EndOpFor(s, k, outcome, audience) ==
    [ops EXCEPT ![s][k].pc = "done", ![s][k].outcome = outcome,
                ![s][k].audience = audience]

Packet(ev, op, data) == [ev |-> ev, op |-> op, data |-> data]

\* A packet reaches a client only while its connection is open.
Deliver(rcv, targets, pkt) ==
    [s \in Sockets |-> IF s \in targets /\ status[s] = "connected"
                       THEN Append(rcv[s], pkt) ELSE rcv[s]]

\* io.emit(ev, data) in the place of socket.emit: to every socket.
SocketEmit_ToAll(rcv, s, pkt) == Deliver(rcv, Sockets, pkt)

\* socket.emit(ev, data): to this socket only.
SocketEmit(rcv, s, pkt) == Deliver(rcv, {s}, pkt)
\* io.to(room).emit(ev, data): to every socket in the room.
IoToEmit(rcv, room, pkt) == Deliver(rcv, adapterRooms[room], pkt)
\* socket.to(room).emit(ev, data): to every socket in the room but this one.
SocketToEmit(rcv, s, room, pkt) == Deliver(rcv, adapterRooms[room] \ {s}, pkt)

\* const { ..., roomId = 'public-hub' } = payload
RoomOrDefault(r) == IF r = Undefined THEN PublicHub ELSE r

\* The sessions of activeUsers whose userRooms entry contains the room
\* (lines 139-140), as the set of their socket ids.
roomUsers(room) ==
    {s \in DOMAIN activeUsers :
        s \in DOMAIN userRooms
        /\ \E k \in DOMAIN userRooms[s] : userRooms[s][k] = room}

\* ------------------------------------------------------------------- Init
\* The server has started and the clients have connected (lines 97-98); no
\* client has sent an event yet.
Init ==
    /\ status = [s \in Sockets |-> "connected"]
    /\ activeUsers = EmptyMap
    /\ userRooms = EmptyMap
    /\ adapterRooms = [r \in Rooms |-> {}]
    /\ chatPresence = EmptyMap
    /\ chatMessages = <<>>
    /\ ops = [s \in Sockets |-> <<>>]
    /\ received = [s \in Sockets |-> <<>>]

\* ------------------------------------------------------------- user:join
\* Lines 101-127: the session and the room entry are stored, the socket
\* joins the public hub, and the handler waits for the presence write.
UserJoin(s, u) ==
    /\ status[s] = "connected"
    /\ Events < MaxEvents
    /\ activeUsers' = MapSet(activeUsers, s, [userId |-> u, socketId |-> s])
    /\ adapterRooms' = [adapterRooms EXCEPT ![PublicHub] = @ \cup {s}]
    /\ userRooms' = MapSet(userRooms, s, <<PublicHub>>)
    /\ ops' = StartOp(s, [kind |-> "user:join", userId |-> u, audience |-> {},
                          pc |-> "presence_set", outcome |-> "pending"])
    /\ UNCHANGED <<status, chatPresence, chatMessages, received>>

\* An error sent to the public hub in the place of the socket.
JoinFailed_ToRoom(rcv, s, k) ==
    IoToEmit(rcv, PublicHub,
             Packet("error", <<s, k>>, [message |-> "Failed to join chat"]))

\* Lines 145-148: the catch block tells the joining socket alone.
JoinFailed(rcv, s, k) ==
    SocketEmit(rcv, s,
               Packet("error", <<s, k>>, [message |-> "Failed to join chat"]))

\* A catch block that takes back the session stored at line 106.
JoinFailedSession_RolledBack(users, s) == MapDelete(users, s)

\* Lines 145-148: the catch block leaves activeUsers as line 106 set it.
JoinFailedSession(users, s) == users

\* Lines 120-148, the presence write answered.  On success user:joined goes
\* to the others in the hub and users:list to the socket; on failure the
\* catch block sends the error and nothing else.
UserJoinPresenceDone(s, k, ok) ==
    /\ ops[s][k].kind = "user:join"
    /\ ops[s][k].pc = "presence_set"
    /\ LET u == ops[s][k].userId
           audience == adapterRooms[PublicHub] \ {s}
       IN IF ok
          THEN /\ chatPresence' = MapSet(chatPresence, u,
                                      [isOnline |-> TRUE, socketId |-> s])
               /\ received' =
                    SocketEmit(
                      SocketToEmit(received, s, PublicHub,
                                   Packet("user:joined", <<s, k>>, [userId |-> u])),
                      s, Packet("users:list", <<s, k>>,
                                [users |-> roomUsers(PublicHub)]))
               /\ ops' = EndOpFor(s, k, "ok", audience)
               /\ UNCHANGED activeUsers
          ELSE /\ received' = JoinFailed(received, s, k)
               /\ activeUsers' = JoinFailedSession(activeUsers, s)
               /\ ops' = EndOpFor(s, k, "failed", audience)
               /\ UNCHANGED chatPresence
    /\ UNCHANGED <<status, userRooms, adapterRooms, chatMessages>>

\* ---------------------------------------------------------- message:send
\* new Date() of line 181: later sends see later times.
Now == Cardinality(OpsOfKind("message:send")) + 1

\* The message object of lines 163-175 and the document of lines 178-182.
NewMessage(id, user, content, roomId) ==
    [id |-> id, content |-> content, userId |-> user.userId, roomId |-> roomId,
     likes |-> <<>>, createdAt |-> Now]

\* Lines 152-182: the identity check, then the wait for the write.
MessageSend(s, content, roomIn) ==
    /\ status[s] = "connected"
    /\ Events < MaxEvents
    /\ LET id == <<s, Len(ops[s]) + 1>>
           roomId == RoomOrDefault(roomIn)
       IN IF s \notin DOMAIN activeUsers
          THEN /\ received' = SocketEmit(received, s,
                                  Packet("error", id,
                                         [message |-> "User not authenticated"]))
               /\ ops' = StartOp(s, [kind |-> "message:send",
                                     content |-> content, roomId |-> roomId,
                                     audience |-> {},
                                     pc |-> "done", outcome |-> "unauthenticated"])
          ELSE /\ ops' = StartOp(s, [kind |-> "message:send",
                                     content |-> content, roomId |-> roomId,
                                     message |-> NewMessage(id, activeUsers[s],
                                                            content, roomId),
                                     audience |-> {},
                                     pc |-> "add", outcome |-> "pending"])
               /\ UNCHANGED received
    /\ UNCHANGED <<status, activeUsers, userRooms, adapterRooms, chatPresence,
                   chatMessages>>

\* Lines 185-189: the stored message, with the id the store gave it, goes
\* to every socket in the room.
SendStored(rcv, s, k, message, firebaseId) ==
    IoToEmit(rcv, message.roomId,
             Packet("message:new", <<s, k>>,
                    [id |-> message.id, content |-> message.content,
                     roomId |-> message.roomId, firebaseId |-> firebaseId]))

\* A relay that broadcasts before the write is acknowledged.
SendFailed_AfterBroadcast(rcv, s, k, message) ==
    SocketEmit(SendStored(rcv, s, k, message, 0), s,
               Packet("error", <<s, k>>, [message |-> "Failed to send message"]))

\* A catch block that swallows the failure of the write.
SendFailed_Silent(rcv, s, k, message) == rcv

\* Lines 192-195: the catch block tells the sender alone.
SendFailed(rcv, s, k, message) ==
    SocketEmit(rcv, s,
               Packet("error", <<s, k>>, [message |-> "Failed to send message"]))

\* Lines 178-195, the write answered: on success the stored message is
\* broadcast to the room, on failure the sender gets the error.
MessageSendAddDone(s, k, ok) ==
    /\ ops[s][k].kind = "message:send"
    /\ ops[s][k].pc = "add"
    /\ LET message == ops[s][k].message
           firebaseId == Len(chatMessages) + 1
           audience == roomUsers(message.roomId)
       IN IF ok
          THEN /\ chatMessages' = Append(chatMessages, message)
               /\ received' = SendStored(received, s, k, message, firebaseId)
               /\ ops' = EndOpFor(s, k, "stored", audience)
          ELSE /\ received' = SendFailed(received, s, k, message)
               /\ ops' = EndOpFor(s, k, "failed", audience)
               /\ UNCHANGED chatMessages
    /\ UNCHANGED <<status, activeUsers, userRooms, adapterRooms, chatPresence>>

\* ------------------------------------------------------------ disconnect
\* The connection closes: Socket.IO takes the socket out of its rooms and
\* fires 'disconnect'.  Lines 257-265: with a session the handler waits for
\* the presence update, without one it ends at once.
Disconnect(s) ==
    /\ status[s] = "connected"
    /\ Events < MaxEvents
    /\ status' = [status EXCEPT ![s] = "disconnected"]
    /\ adapterRooms' = [r \in Rooms |-> adapterRooms[r] \ {s}]
    /\ ops' = IF s \in DOMAIN activeUsers
              THEN StartOp(s, [kind |-> "disconnect",
                               userId |-> activeUsers[s].userId, audience |-> {},
                               pc |-> "presence_update", outcome |-> "pending"])
              ELSE StartOp(s, [kind |-> "disconnect", audience |-> {},
                               pc |-> "done", outcome |-> "no session"])
    /\ UNCHANGED <<activeUsers, userRooms, chatPresence, chatMessages, received>>

\* userRooms.get(socket.id) || []
RoomsOf(s) == IF s \in DOMAIN userRooms THEN userRooms[s] ELSE <<>>

\* rooms.forEach(room => socket.to(room).emit('user:left', ...)), lines 268-275
RECURSIVE NotifyLeft(_, _, _, _, _)
NotifyLeft(rcv, s, rooms, n, pkt) ==
    IF n > Len(rooms) THEN rcv
    ELSE NotifyLeft(SocketToEmit(rcv, s, rooms[n], pkt), s, rooms, n + 1, pkt)

\* The clean-up that forgets to drop the room list of the socket.
CleanUpRooms_Kept(rooms, s) == rooms

\* A disconnect that leaves the user online while another connection holds
\* a session of the same user.
MarkOffline_UnlessOtherSession(presence, s, u) ==
    IF \E t \in DOMAIN activeUsers \ {s} : activeUsers[t].userId = u
    THEN presence
    ELSE [presence EXCEPT ![u].isOnline = FALSE]

\* Lines 262-265: chatPresence.doc(user.userId).update({ isOnline: false }),
\* whatever the other sessions of the registry.
MarkOffline(presence, s, u) == [presence EXCEPT ![u].isOnline = FALSE]

\* Line 279: userRooms.delete(socket.id).
CleanUpRooms(rooms, s) == MapDelete(rooms, s)

\* Lines 262-285, the presence update answered.  update() of a document
\* that does not exist fails.  On success the rooms are notified and the
\* two Map entries deleted; on failure the catch block only logs.
DisconnectPresenceDone(s, k, ok) ==
    /\ ops[s][k].kind = "disconnect"
    /\ ops[s][k].pc = "presence_update"
    /\ LET u == ops[s][k].userId
           rooms == RoomsOf(s)
           audience == UNION {adapterRooms[rooms[n]] \ {s} : n \in DOMAIN rooms}
       IN IF ok /\ u \in DOMAIN chatPresence
          THEN /\ chatPresence' = MarkOffline(chatPresence, s, u)
               /\ received' = NotifyLeft(received, s, rooms, 1,
                                         Packet("user:left", <<s, k>>, [userId |-> u]))
               /\ activeUsers' = MapDelete(activeUsers, s)
               /\ userRooms' = CleanUpRooms(userRooms, s)
               /\ ops' = EndOpFor(s, k, "ok", audience)
          ELSE /\ ops' = EndOpFor(s, k, "failed", audience)
               /\ UNCHANGED <<chatPresence, received, activeUsers, userRooms>>
    /\ UNCHANGED <<status, adapterRooms, chatMessages>>

\* ---------------------------------------------------------- message:like
\* A like that reports the missing session as message:send does.
LikeNoSession_Reported(rcv, s, k) ==
    SocketEmit(rcv, s,
               Packet("error", <<s, k>>, [message |-> "User not authenticated"]))

\* Line 223: if (!user) return; nothing is sent.
LikeNoSession(rcv, s, k) == rcv

\* Lines 220-229: without a session the handler returns; with one it waits
\* for the read of the message document.
MessageLike(s, messageId, action) ==
    /\ status[s] = "connected"
    /\ Cardinality(OpsOfKind("message:like")) < MaxLikes
    /\ ops' = IF s \notin DOMAIN activeUsers
              THEN StartOp(s, [kind |-> "message:like", messageId |-> messageId,
                               action |-> action,
                               pc |-> "done", outcome |-> "no session"])
              ELSE StartOp(s, [kind |-> "message:like", messageId |-> messageId,
                               action |-> action,
                               userId |-> activeUsers[s].userId,
                               pc |-> "get", outcome |-> "pending"])
    /\ received' = IF s \notin DOMAIN activeUsers
                   THEN LikeNoSession(received, s, Len(ops[s]) + 1)
                   ELSE received
    /\ UNCHANGED <<status, activeUsers, userRooms, adapterRooms, chatPresence,
                   chatMessages>>

\* likes.filter(id => id !== userId), line 238
RECURSIVE Without(_, _)
Without(likes, u) ==
    IF likes = <<>> THEN <<>>
    ELSE IF likes[1] = u THEN Without(Tail(likes), u)
         ELSE <<likes[1]>> \o Without(Tail(likes), u)

Includes(likes, u) == \E n \in DOMAIN likes : likes[n] = u

\* The same without the includes() test of line 235.
NewLikes_NoCheck(likes, u, action) ==
    IF action = "like" THEN Append(likes, u)
    ELSE IF action = "unlike" THEN Without(likes, u)
    ELSE likes

\* Lines 233-239: the likes array to write, from the array that was read.
NewLikes(likes, u, action) ==
    IF action = "like" /\ ~Includes(likes, u) THEN Append(likes, u)
    ELSE IF action = "unlike" THEN Without(likes, u)
    ELSE likes

\* Lines 229-241, the read answered: a document that exists gives the new
\* likes array and the wait for its write; a missing one ends the handler.
LikeGetDone(s, k, ok) ==
    /\ ops[s][k].kind = "message:like"
    /\ ops[s][k].pc = "get"
    /\ LET op == ops[s][k]
           exists == op.messageId \in DOMAIN chatMessages
       IN ops' =
            IF ~ok THEN EndOp(s, k, "failed")
            ELSE IF ~exists THEN EndOp(s, k, "not found")
            ELSE [ops EXCEPT ![s][k] =
                    [kind |-> "message:like", messageId |-> op.messageId,
                     action |-> op.action, userId |-> op.userId,
                     snapshot |-> chatMessages[op.messageId].likes,
                     likes |-> NewLikes(chatMessages[op.messageId].likes,
                                        op.userId, op.action),
                     roomId |-> chatMessages[op.messageId].roomId,
                     pc |-> "update", outcome |-> "pending"]]
    /\ UNCHANGED <<status, activeUsers, userRooms, adapterRooms, chatPresence,
                   chatMessages, received>>

\* messageRef.update({ likes }), line 241: the whole array is replaced.
UpdateLikes(messages, messageId, likes) ==
    [messages EXCEPT ![messageId].likes = likes]

\* Lines 241-253, the write answered: on success the new array is
\* broadcast to the message's room; a failure is only logged.
LikeUpdateDone(s, k, ok) ==
    /\ ops[s][k].kind = "message:like"
    /\ ops[s][k].pc = "update"
    /\ LET op == ops[s][k]
       IN IF ok
          THEN /\ chatMessages' = UpdateLikes(chatMessages, op.messageId, op.likes)
               /\ received' = IoToEmit(received, op.roomId,
                                  Packet("message:liked", <<s, k>>,
                                         [messageId |-> op.messageId,
                                          likes |-> op.likes,
                                          userId |-> op.userId,
                                          action |-> op.action]))
               /\ ops' = EndOp(s, k, "ok")
          ELSE /\ ops' = EndOp(s, k, "failed")
               /\ UNCHANGED <<chatMessages, received>>
    /\ UNCHANGED <<status, activeUsers, userRooms, adapterRooms, chatPresence>>

\* ------------------------------------------------------ messages:history
\* const { ..., limit = 50, ... } = data
LimitOrDefault(l) == IF l = <<>> THEN DefaultLimit ELSE l[1]

\* orderBy('createdAt', 'desc'): document a comes before document b.  Equal
\* creation times are ordered by document id, as the store does.
Before(log, a, b) ==
    \/ log[a].createdAt > log[b].createdAt
    \/ log[a].createdAt = log[b].createdAt /\ a > b

\* The ids of the documents of the log, newest first.
RECURSIVE ScanDesc(_, _)
ScanDesc(log, ids) ==
    IF ids = {} THEN <<>>
    ELSE LET first == CHOOSE a \in ids : \A b \in ids \ {a} : Before(log, a, b)
         IN <<first>> \o ScanDesc(log, ids \ {first})

\* query.startAt(lastDoc): the scan from the cursor document on.
RECURSIVE StartAfter_Inclusive(_, _)
StartAfter_Inclusive(scan, cursor) ==
    IF scan = <<>> THEN <<>>
    ELSE IF scan[1] = cursor THEN scan
         ELSE StartAfter_Inclusive(Tail(scan), cursor)

\* query.startAfter(lastDoc): what follows the cursor document in the scan.
RECURSIVE StartAfter(_, _)
StartAfter(scan, cursor) ==
    IF scan = <<>> THEN <<>>
    ELSE IF scan[1] = cursor THEN Tail(scan)
         ELSE StartAfter(Tail(scan), cursor)

\* .limit(n) and .slice(0, n)
Take(seq, n) == SubSeq(seq, 1, IF n < Len(seq) THEN n ELSE Len(seq))

\* A reverse() that was left out.
Reverse_Missing(seq) == seq

\* .reverse(), line 322
RECURSIVE Reverse(_)
Reverse(seq) == IF seq = <<>> THEN <<>> ELSE Append(Reverse(Tail(seq)), seq[1])

\* Lines 295-306: the documents the query returns, newest first.  cursor is
\* 0 when the query has no startAfter.
QueryGet(log, limit, cursor) ==
    LET scan == ScanDesc(log, DOMAIN log)
    IN Take(IF cursor = 0 THEN scan ELSE StartAfter(scan, cursor),
            limit * OverfetchFactor)

\* Lines 307-322: the room's documents of the snapshot, cut to the limit and
\* reversed.
LimitedMessages(log, snapshot, roomId, limit) ==
    LET InRoom(id) == log[id].roomId = roomId
        Message(id) == [firebaseId |-> id, roomId |-> log[id].roomId,
                        createdAt |-> log[id].createdAt]
        messages == SelectSeq(snapshot, InRoom)
        limited == Reverse(Take(messages, limit))
    IN [n \in DOMAIN limited |-> Message(limited[n])]

\* The query of an operation is sent, or was answered.
HistoryQuery(op, cursor) ==
    [kind |-> "messages:history", roomId |-> op.roomId, limit |-> op.limit,
     lastMessageId |-> op.lastMessageId, cursor |-> cursor,
     pc |-> "query_get", outcome |-> "pending"]

\* Lines 289-304: with a lastMessageId the handler waits for the read of
\* that document, without one for the query.
MessagesHistory(s, roomIn, limitIn, lastMessageId) ==
    /\ status[s] = "connected"
    /\ LET op == [kind |-> "messages:history", roomId |-> RoomOrDefault(roomIn),
                  limit |-> LimitOrDefault(limitIn),
                  lastMessageId |-> lastMessageId, cursor |-> 0,
                  pc |-> "cursor_get", outcome |-> "pending"]
       IN ops' = IF lastMessageId = <<>>
                 THEN StartOp(s, HistoryQuery(op, 0))
                 ELSE StartOp(s, op)
    /\ UNCHANGED <<status, activeUsers, userRooms, adapterRooms, chatPresence,
                   chatMessages, received>>

\* The first messages:history of a run.  The handler reads the store and
\* the payload and writes nothing but its own response, so requests do not
\* affect one another and a run follows a single request, or a request and
\* the request of the next page.
FirstHistory(s, roomIn, limitIn, lastMessageId) ==
    /\ OpsOfKind("messages:history") = {}
    /\ MessagesHistory(s, roomIn, limitIn, lastMessageId)

\* The client asks for the page before the one it has: the same room and
\* limit, and as lastMessageId the id of the oldest message of the response
\* it received.
NextPage(s) ==
    /\ Cardinality(OpsOfKind("messages:history")) = 1
    /\ Len(ops[s]) = 1
    /\ ops[s][1].kind = "messages:history"
    /\ ops[s][1].outcome = "ok"
    /\ LET page == received[s][Len(received[s])].data
       IN /\ page # <<>>
          /\ MessagesHistory(s, ops[s][1].roomId, <<ops[s][1].limit>>,
                             <<page[1].firebaseId>>)

\* Lines 300-306, the read of the cursor document answered: the query
\* starts after it if it exists, and from the newest document if not.
HistoryCursorDone(s, k, ok) ==
    /\ ops[s][k].kind = "messages:history"
    /\ ops[s][k].pc = "cursor_get"
    /\ LET op == ops[s][k]
           lastDoc == op.lastMessageId[1]
           exists == lastDoc \in DOMAIN chatMessages
       IN IF ok
          THEN /\ ops' = [ops EXCEPT ![s][k] =
                            HistoryQuery(op, IF exists THEN lastDoc ELSE 0)]
               /\ UNCHANGED received
          ELSE /\ ops' = EndOp(s, k, "failed")
               /\ received' = SocketEmit(received, s,
                                  Packet("error", <<s, k>>,
                                         [message |-> "Failed to load message history"]))
    /\ UNCHANGED <<status, activeUsers, userRooms, adapterRooms, chatPresence,
                   chatMessages>>

\* Lines 306-329, the query answered.
HistoryQueryDone(s, k, ok) ==
    /\ ops[s][k].kind = "messages:history"
    /\ ops[s][k].pc = "query_get"
    /\ LET op == ops[s][k]
           snapshot == QueryGet(chatMessages, op.limit, op.cursor)
       IN IF ok
          THEN /\ received' = SocketEmit(received, s,
                                  Packet("messages:history", <<s, k>>,
                                         LimitedMessages(chatMessages, snapshot,
                                                         op.roomId, op.limit)))
               /\ ops' = EndOp(s, k, "ok")
          ELSE /\ received' = SocketEmit(received, s,
                                  Packet("error", <<s, k>>,
                                         [message |-> "Failed to load message history"]))
               /\ ops' = EndOp(s, k, "failed")
    /\ UNCHANGED <<status, activeUsers, userRooms, adapterRooms, chatPresence,
                   chatMessages>>

\* ------------------------------------------------------------------ Spec
\* Sessions, presence and the message relay.
Next ==
    \/ \E s \in Sockets, u \in Users : UserJoin(s, u)
    \/ \E s \in Sockets : \E k \in DOMAIN ops[s], ok \in BOOLEAN :
          UserJoinPresenceDone(s, k, ok)
    \/ \E s \in Sockets, c \in Contents, r \in RoomInputs : MessageSend(s, c, r)
    \/ \E s \in Sockets : \E k \in DOMAIN ops[s], ok \in BOOLEAN :
          MessageSendAddDone(s, k, ok)
    \/ \E s \in Sockets : Disconnect(s)
    \/ \E s \in Sockets : \E k \in DOMAIN ops[s], ok \in BOOLEAN :
          DisconnectPresenceDone(s, k, ok)

Spec == Init /\ [][Next]_vars

\* -------------------------------------------------------------- SpecLike
\* Reactions.  The run starts after s1 joined as u1 and, if s2Session says
\* so, s2 joined as that user, all presence writes acknowledged, and s1 sent
\* "hello" to the public hub and the message was stored as document 1.
LikeSetup(s2Session) ==
    LET joined == IF s2Session = "none" THEN {"s1"} ELSE {"s1", "s2"}
        join(u, audience) == [kind |-> "user:join", userId |-> u,
                              audience |-> audience,
                              pc |-> "done", outcome |-> "ok"]
        message == [id |-> <<"s1", 2>>, content |-> "hello", userId |-> "u1",
                    roomId |-> PublicHub, likes |-> <<>>, createdAt |-> 1]
        new == Packet("message:new", <<"s1", 2>>,
                      [id |-> <<"s1", 2>>, content |-> "hello",
                       roomId |-> PublicHub, firebaseId |-> 1])
        list(s, users) == Packet("users:list", <<s, 1>>, [users |-> users])
    IN /\ status = [s \in Sockets |-> "connected"]
       /\ activeUsers = [s \in joined |->
             [userId |-> IF s = "s1" THEN "u1" ELSE s2Session, socketId |-> s]]
       /\ userRooms = [s \in joined |-> <<PublicHub>>]
       /\ adapterRooms = [r \in Rooms |-> IF r = PublicHub THEN joined ELSE {}]
       /\ chatPresence =
            [u \in {"u1"} \cup ({s2Session} \ {"none"}) |->
               [isOnline |-> TRUE,
                socketId |-> IF u = s2Session THEN "s2" ELSE "s1"]]
       /\ chatMessages = <<message>>
       /\ ops = [s \in Sockets |->
            IF s = "s1"
            THEN <<join("u1", {}),
                   [kind |-> "message:send", content |-> "hello",
                    roomId |-> PublicHub, message |-> message,
                    audience |-> joined,
                    pc |-> "done", outcome |-> "stored"]>>
            ELSE IF s2Session = "none" THEN <<>>
                 ELSE <<join(s2Session, {"s1"})>>]
       /\ received = [s \in Sockets |->
            IF s = "s1"
            THEN IF s2Session = "none" THEN <<list("s1", {"s1"}), new>>
                 ELSE <<list("s1", {"s1"}),
                        Packet("user:joined", <<"s2", 1>>, [userId |-> s2Session]),
                        new>>
            ELSE IF s2Session = "none" THEN <<>>
                 ELSE <<list("s2", {"s1", "s2"}), new>>]

InitLike == \E s2Session \in Users \cup {"none"} : LikeSetup(s2Session)

\* message ids of a message:like payload: the stored document and one that
\* does not exist.
LikeTargets == {1, 2}

NextLike ==
    \/ \E s \in Sockets, m \in LikeTargets, a \in LikeActions : MessageLike(s, m, a)
    \/ \E s \in Sockets : \E k \in DOMAIN ops[s], ok \in BOOLEAN : LikeGetDone(s, k, ok)
    \/ \E s \in Sockets : \E k \in DOMAIN ops[s], ok \in BOOLEAN : LikeUpdateDone(s, k, ok)

SpecLike == InitLike /\ [][NextLike]_vars

\* ----------------------------------------------------------- SpecHistory
\* The history of a log.  The run starts with a log of at most MaxLog
\* documents of any rooms and creation times, written by connections that
\* have closed since, and two new connections.
LogOf(f) ==
    [n \in DOMAIN f |->
       [id |-> <<"s0", n>>, content |-> "hello", userId |-> "u1",
        roomId |-> f[n][1], likes |-> <<>>, createdAt |-> f[n][2]]]

Logs == {LogOf(f) : f \in UNION {[1..n -> Rooms \X Times] : n \in 0..MaxLog}}

InitHistory ==
    /\ status = [s \in Sockets |-> "connected"]
    /\ activeUsers = EmptyMap
    /\ userRooms = EmptyMap
    /\ adapterRooms = [r \in Rooms |-> {}]
    /\ chatPresence = EmptyMap
    /\ chatMessages \in Logs
    /\ ops = [s \in Sockets |-> <<>>]
    /\ received = [s \in Sockets |-> <<>>]

\* lastMessageId values of a messages:history payload: none, a document of
\* the log, or an id no document has.
CursorInputs == {<<>>} \cup {<<n>> : n \in 1..MaxLog + 1}

NextHistory ==
    \/ \E s \in Sockets, r \in RoomInputs, l \in LimitInputs, c \in CursorInputs :
          FirstHistory(s, r, l, c)
    \/ \E s \in Sockets : \E k \in DOMAIN ops[s], ok \in BOOLEAN :
          HistoryCursorDone(s, k, ok)
    \/ \E s \in Sockets : \E k \in DOMAIN ops[s], ok \in BOOLEAN :
          HistoryQueryDone(s, k, ok)

SpecHistory == InitHistory /\ [][NextHistory]_vars

\* ------------------------------------------------------------ SpecPaging
\* A request for history and the request of the page before it, on a log
\* that no one writes to.
NextPaging ==
    \/ \E s \in Sockets, r \in RoomInputs, l \in LimitInputs, c \in CursorInputs :
          FirstHistory(s, r, l, c)
    \/ \E s \in Sockets : NextPage(s)
    \/ \E s \in Sockets : \E k \in DOMAIN ops[s], ok \in BOOLEAN :
          HistoryCursorDone(s, k, ok)
    \/ \E s \in Sockets : \E k \in DOMAIN ops[s], ok \in BOOLEAN :
          HistoryQueryDone(s, k, ok)

SpecPaging == InitHistory /\ [][NextPaging]_vars

\* --------------------------------------------------------------- SpecAll
\* Every handler, from the start of the server.  The payloads are cut to
\* those that decide which store call a handler reaches: one content, the
\* default room and limit, a like of document 1, a history request with and
\* without a cursor.  MaxEvents bounds the events of all kinds together.
NextAll ==
    /\ \/ \E s \in Sockets, u \in Users : UserJoin(s, u)
       \/ \E s \in Sockets : \E k \in DOMAIN ops[s], ok \in BOOLEAN :
             UserJoinPresenceDone(s, k, ok)
       \/ \E s \in Sockets : MessageSend(s, "hello", Undefined)
       \/ \E s \in Sockets : \E k \in DOMAIN ops[s], ok \in BOOLEAN :
             MessageSendAddDone(s, k, ok)
       \/ \E s \in Sockets : Disconnect(s)
       \/ \E s \in Sockets : \E k \in DOMAIN ops[s], ok \in BOOLEAN :
             DisconnectPresenceDone(s, k, ok)
       \/ \E s \in Sockets : MessageLike(s, 1, "like")
       \/ \E s \in Sockets : \E k \in DOMAIN ops[s], ok \in BOOLEAN :
             LikeGetDone(s, k, ok)
       \/ \E s \in Sockets : \E k \in DOMAIN ops[s], ok \in BOOLEAN :
             LikeUpdateDone(s, k, ok)
       \/ \E s \in Sockets, c \in {<<>>, <<1>>} :
             FirstHistory(s, Undefined, <<>>, c)
       \/ \E s \in Sockets : \E k \in DOMAIN ops[s], ok \in BOOLEAN :
             HistoryCursorDone(s, k, ok)
       \/ \E s \in Sockets : \E k \in DOMAIN ops[s], ok \in BOOLEAN :
             HistoryQueryDone(s, k, ok)
    /\ Events' <= MaxEvents

SpecAll == Init /\ [][NextAll]_vars

\* The store answers every call: a handler waiting at an await of
\* message:send or message:like is resumed, with the result or the error.
SendAnswered ==
    \E s \in Sockets : \E k \in DOMAIN ops[s], ok \in BOOLEAN : MessageSendAddDone(s, k, ok)
LikeAnswered ==
    \E s \in Sockets : \E k \in DOMAIN ops[s], ok \in BOOLEAN :
       LikeGetDone(s, k, ok) \/ LikeUpdateDone(s, k, ok)

SpecAllFair == SpecAll /\ WF_vars(SendAnswered) /\ WF_vars(LikeAnswered)

\* ============================================================ properties
AllFinished == \A o \in OpIds : ~Pending(o)
SocketFinished(s) == \A k \in DOMAIN ops[s] : ops[s][k].pc = "done"

\* The places in what t received of the packets named ev that operation o sent.
PacketsOf(t, ev, o) ==
    {n \in DOMAIN received[t] : received[t][n].ev = ev /\ received[t][n].op = o}
Got(t, ev, o) == PacketsOf(t, ev, o) # {}

\* The connections that joined the room and have not disconnected since
\* (user:join joins the public hub and no other room).
JoinedConnections(room) ==
    {s \in Sockets : /\ room = PublicHub
                     /\ status[s] = "connected"
                     /\ \E k \in DOMAIN ops[s] : ops[s][k].kind = "user:join"}

\* C1: once every started handler has finished, membersOf(roomId), the
\* sessions of activeUsers whose userRooms entry contains roomId, is
\* exactly the set of connections that joined roomId and have not
\* disconnected since, also when store writes failed.
C1_MembersAreJoinedConnections ==
    AllFinished => \A room \in Rooms : roomUsers(room) = JoinedConnections(room)

\* C2: a message:new of a message is emitted only after the message's write
\* to the log has succeeded; when the write fails no connection receives
\* message:new for it and no connection but the sender receives an error.
C2_PersistThenBroadcast ==
    \A o \in OpsOfKind("message:send") :
       /\ (\E t \in Sockets : Got(t, "message:new", o))
             => /\ Op(o).outcome = "stored"
                /\ \E d \in DOMAIN chatMessages : chatMessages[d].id = o
       /\ Op(o).outcome = "failed"
             => /\ \A t \in Sockets : ~Got(t, "message:new", o)
                /\ \A t \in Sockets \ {o[1]} : ~Got(t, "error", o)
                /\ \A d \in DOMAIN chatMessages : chatMessages[d].id # o

\* A write failed while the sender and another connection were in the
\* message's room, and the sender was told.
C2_Witness ==
    \E o \in OpsOfKind("message:send") :
       /\ Op(o).outcome = "failed"
       /\ Got(o[1], "error", o)
       /\ \E t \in Sockets \ {o[1]} : t \in adapterRooms[Op(o).roomId]
       /\ o[1] \in adapterRooms[Op(o).roomId]

\* C3: for every message:send of a joined connection whose write succeeds,
\* every member of roomId at broadcast time, and the sender, receives
\* exactly one message:new with the content and the roomId that were sent.
C3_MembersAndSenderReceive ==
    \A o \in OpsOfKind("message:send") :
       Op(o).outcome = "stored"
          => \A t \in Op(o).audience \cup {o[1]} :
                /\ Cardinality(PacketsOf(t, "message:new", o)) = 1
                /\ \A n \in PacketsOf(t, "message:new", o) :
                      /\ received[t][n].data.content = Op(o).content
                      /\ received[t][n].data.roomId = Op(o).roomId

\* C4: a message:send of a connection without a session sends an error to
\* that connection only, writes nothing to the log and broadcasts no
\* message:new.
C4_UnauthenticatedSend ==
    \A o \in OpsOfKind("message:send") :
       Op(o).outcome = "unauthenticated"
          => /\ \E n \in PacketsOf(o[1], "error", o) :
                   received[o[1]][n].data.message = "User not authenticated"
             /\ \A t \in Sockets \ {o[1]} : ~Got(t, "error", o)
             /\ \A t \in Sockets : ~Got(t, "message:new", o)
             /\ \A d \in DOMAIN chatMessages : chatMessages[d].id # o

\* A connection without a session sent a message while another connection
\* was in the room it named.
C4_Witness ==
    \E o \in OpsOfKind("message:send") :
       /\ Op(o).outcome = "unauthenticated"
       /\ adapterRooms[Op(o).roomId] \ {o[1]} # {}

\* The message:like operations on a message, and the users that ran them.
LikesOn(m) == {o \in OpsOfKind("message:like") : Op(o).messageId = m}
LikedBy(m, u, action) ==
    {o \in LikesOn(m) : /\ Op(o).outcome = "ok"
                        /\ Op(o).userId = u
                        /\ Op(o).action = action}

\* C5: concurrent like and unlike operations of different users on one
\* message lose no update: once all of them have completed, the stored
\* likes hold every user who only liked and no user who only unliked.
C5_NoLostUpdate ==
    \A m \in DOMAIN chatMessages :
       (\A o \in LikesOn(m) : Op(o).outcome = "ok")
          => \A u \in Users :
                /\ (LikedBy(m, u, "like") # {} /\ LikedBy(m, u, "unlike") = {})
                      => Includes(chatMessages[m].likes, u)
                /\ (LikedBy(m, u, "unlike") # {} /\ LikedBy(m, u, "like") = {})
                      => ~Includes(chatMessages[m].likes, u)

\* C6: liking a message twice as the same user, one after the other or
\* interleaved at the store waits, leaves the stored likes as liking it
\* once does: when every reaction to a message so far is a like of one
\* user and all have finished, the likes are that user alone if a write
\* went through, and empty if none did.
C6_LikeIdempotent ==
    \A m \in DOMAIN chatMessages, u \in Users :
       (/\ LikesOn(m) # {}
        /\ \A o \in LikesOn(m) : /\ ~Pending(o)
                                 /\ Op(o).action = "like"
                                 /\ Op(o).outcome # "no session"
                                 /\ Op(o).userId = u)
          => chatMessages[m].likes =
                IF LikedBy(m, u, "like") # {} THEN <<u>> ELSE <<>>

\* Two likes of one user were interleaved (each read the likes before the
\* other wrote) and both were written.
C6_Witness ==
    \E m \in DOMAIN chatMessages, u \in Users :
       /\ \A o \in LikesOn(m) : ~Pending(o) /\ Op(o).action = "like"
                                /\ Op(o).outcome # "no session" /\ Op(o).userId = u
       /\ \E o1, o2 \in LikedBy(m, u, "like") :
             o1 # o2 /\ Op(o1).snapshot = <<>> /\ Op(o2).snapshot = <<>>
       /\ chatMessages[m].likes = <<u>>

\* The messages:history responses a connection received.
Responses(t) == {n \in DOMAIN received[t] : received[t][n].ev = "messages:history"}

\* C7: every messages:history response is ordered oldest first by creation
\* time, for every roomId, limit and cursor.
C7_HistoryOldestFirst ==
    \A t \in Sockets : \A n \in Responses(t) :
       LET messages == received[t][n].data
       IN \A a, b \in DOMAIN messages :
             a < b => messages[a].createdAt <= messages[b].createdAt

\* A response to a request with a cursor holds two messages of different
\* creation times, and the older was stored later.
C7_Witness ==
    \E t \in Sockets : \E n \in Responses(t) :
       LET messages == received[t][n].data
       IN /\ Len(messages) = 2
          /\ messages[1].createdAt < messages[2].createdAt
          /\ messages[1].firebaseId > messages[2].firebaseId
          /\ Op(received[t][n].op).cursor # 0

\* The documents of a room in the log.
RoomDocs(room) == {d \in DOMAIN chatMessages : chatMessages[d].roomId = room}

\* No two documents of the log were created at the same time.
DistinctTimes ==
    \A a, b \in DOMAIN chatMessages :
       a # b => chatMessages[a].createdAt # chatMessages[b].createdAt

\* C8: for a room of n <= limit messages, messages:history without a cursor
\* returns exactly the room's messages, whatever the number of messages of
\* other rooms in the log (stated for logs of distinct creation times).
C8_HistoryComplete ==
    \A t \in Sockets : \A n \in Responses(t) :
       LET messages == received[t][n].data
           op == Op(received[t][n].op)
       IN (/\ op.lastMessageId = <<>>
           /\ DistinctTimes
           /\ Cardinality(RoomDocs(op.roomId)) <= op.limit)
             => /\ Len(messages) = Cardinality(RoomDocs(op.roomId))
                /\ {messages[a].firebaseId : a \in DOMAIN messages} = RoomDocs(op.roomId)

\* The connections other than s that stored a session of user u.
OtherSessions(s, u) ==
    {t \in Sockets \ {s} :
        \E k \in DOMAIN ops[t] : ops[t][k].kind = "user:join" /\ ops[t][k].userId = u}

\* C9: when a joined connection disconnects, the connections of every room
\* it belonged to receive user:left, and once its handlers have finished the
\* presence record of its user has isOnline = false.
C9_DisconnectMarksOffline ==
    \A s \in Sockets : \A k \in DOMAIN ops[s] :
       (/\ ops[s][k].kind = "disconnect"
        /\ ops[s][k].outcome # "no session"
        /\ SocketFinished(s)
        /\ OtherSessions(s, ops[s][k].userId) = {})
          => /\ ops[s][k].userId \in DOMAIN chatPresence
             /\ ~chatPresence[ops[s][k].userId].isOnline
             /\ \A t \in ops[s][k].audience : Got(t, "user:left", <<s, k>>)

\* C10: a failed presence write does not block the notification of the
\* room: user:joined still reaches the others in the hub when the write of
\* user:join fails, user:left when the write of disconnect fails.
C10_PresenceFailureStillNotifies ==
    \A o \in OpIds :
       /\ (Op(o).kind = "user:join" /\ Op(o).outcome = "failed")
             => \A t \in Op(o).audience : Got(t, "user:joined", o)
       /\ (Op(o).kind = "disconnect" /\ Op(o).outcome = "failed")
             => \A t \in Op(o).audience : Got(t, "user:left", o)

\* A handler of connection s fails in this step.
FailsIn(s) ==
    \E k \in DOMAIN ops[s] : ops[s][k].pc # "done" /\ ops'[s][k].outcome = "failed"

\* The step sends s at most one packet, an error, and leaves what the other
\* connections received, their sessions, their room entries and their
\* operations as they were.
IsolatedTo(s) ==
    /\ \/ received'[s] = received[s]
       \/ /\ Len(received'[s]) = Len(received[s]) + 1
          /\ SubSeq(received'[s], 1, Len(received[s])) = received[s]
          /\ received'[s][Len(received'[s])].ev = "error"
    /\ \A t \in Sockets \ {s} :
          /\ received'[t] = received[t]
          /\ ops'[t] = ops[t]
          /\ (t \in DOMAIN activeUsers') = (t \in DOMAIN activeUsers)
          /\ t \in DOMAIN activeUsers => activeUsers'[t] = activeUsers[t]
          /\ (t \in DOMAIN userRooms') = (t \in DOMAIN userRooms)
          /\ t \in DOMAIN userRooms => userRooms'[t] = userRooms[t]

\* C11: when a handler of connection X fails (a store error in user:join,
\* message:send, message:like, messages:history or disconnect), error events
\* go to X only, and the sessions, the room entries and the operations in
\* progress of every other connection are left unchanged.
C11_FailureIsolated ==
    [][\A s \in Sockets : FailsIn(s) => IsolatedTo(s)]_vars

\* A handler of one connection has failed while another connection holds a
\* session, is in the public hub and has an operation in progress.
C11_Witness ==
    \E s \in Sockets, t \in Sockets :
       /\ s # t
       /\ \E k \in DOMAIN ops[s] : ops[s][k].outcome = "failed"
       /\ t \in DOMAIN activeUsers
       /\ t \in adapterRooms[PublicHub]
       /\ \E k \in DOMAIN ops[t] : ops[t][k].pc # "done"

\* C12: a messages:history request whose lastMessageId names a document
\* that is not in the log is answered with an error event and with no
\* history response.
C12_MissingCursorIsAnError ==
    \A o \in OpsOfKind("messages:history") :
       (/\ ~Pending(o)
        /\ Op(o).lastMessageId # <<>>
        /\ Op(o).lastMessageId[1] \notin DOMAIN chatMessages)
          => /\ Got(o[1], "error", o)
             /\ ~Got(o[1], "messages:history", o)

\* C13: in every reachable state the stored likes of every message hold no
\* userId more than once, however the like handlers interleave.
C13_LikesHaveNoDuplicates ==
    \A m \in DOMAIN chatMessages :
       LET likes == chatMessages[m].likes
       IN \A a, b \in DOMAIN likes : likes[a] = likes[b] => a = b

\* Two users like a message, and one of them had a second like written.
C13_Witness ==
    \E m \in DOMAIN chatMessages, u \in Users :
       /\ Len(chatMessages[m].likes) = 2
       /\ \E o1, o2 \in LikedBy(m, u, "like") : o1 # o2

\* C14: in every reachable state every connection with an entry in
\* userRooms has a session in activeUsers, failed presence writes and
\* disconnects with pending handlers included.
C14_RoomIndexWithinRegistry == DOMAIN userRooms \subseteq DOMAIN activeUsers

\* One connection joined and was cleaned up by its disconnect; the join of
\* the other failed and it holds its entries in both maps.
C14_Witness ==
    \E s \in Sockets : \E t \in Sockets \ {s} :
       /\ \E k \in DOMAIN ops[s] : ops[s][k].kind = "disconnect" /\ ops[s][k].outcome = "ok"
       /\ s \notin DOMAIN userRooms
       /\ \E k \in DOMAIN ops[t] : ops[t][k].kind = "user:join" /\ ops[t][k].outcome = "failed"
       /\ t \in DOMAIN userRooms

\* C15: when one connection issues message:send m1 and then m2 and both are
\* persisted, every connection that receives both message:new events
\* receives that of m1 before that of m2.
C15_PerConnectionOrder ==
    \A s \in Sockets : \A k1, k2 \in DOMAIN ops[s] :
       (/\ k1 < k2
        /\ ops[s][k1].kind = "message:send" /\ ops[s][k1].outcome = "stored"
        /\ ops[s][k2].kind = "message:send" /\ ops[s][k2].outcome = "stored")
          => \A t \in Sockets :
                \A n1 \in PacketsOf(t, "message:new", <<s, k1>>),
                   n2 \in PacketsOf(t, "message:new", <<s, k2>>) : n1 < n2

\* A message:send or message:like handler started as the k-th event of
\* connection s, and has returned.
Started(s, k) ==
    k \in DOMAIN ops[s] /\ ops[s][k].kind \in {"message:send", "message:like"}
Ended(s, k) == Started(s, k) /\ ops[s][k].pc = "done"

\* A message:send that returned did one of two things: it broadcast
\* message:new (the sender, if still in the room, has it) and sent no error,
\* or it sent an error to the sender alone (who has it if still connected)
\* and no message:new.
SendEndedOneWay(o) ==
    LET s == o[1]
    IN /\ \A t \in Sockets \ {s} : ~Got(t, "error", o)
       /\ IF Op(o).outcome = "stored"
          THEN /\ ~Got(s, "error", o)
               /\ s \in adapterRooms[Op(o).roomId] => Got(s, "message:new", o)
          ELSE /\ \A t \in Sockets : ~Got(t, "message:new", o)
               /\ status[s] = "connected" => Got(s, "error", o)

\* A message:like that returned either wrote the likes and broadcast
\* message:liked, or returned through one of its exits: no session, message
\* not found, or the catch block, which reports the failure of the store to
\* the server's log (line 252) and sends nothing.
LikeEndedReported(o) ==
    /\ Op(o).outcome \in {"ok", "no session", "not found", "failed"}
    /\ Op(o).outcome # "ok" => \A t \in Sockets : ~Got(t, "message:liked", o)

LikeDropped(s, k) ==
    /\ k \in DOMAIN ops'[s]
    /\ ops'[s][k].kind = "message:like"
    /\ ops'[s][k].outcome \in {"no session", "not found"}
    /\ k \in DOMAIN ops[s] => ops[s][k].pc # "done"

\* C17: a message:like of a connection without a session, or naming a
\* message that is not in the log, is a silent no-op: the step that ends it
\* leaves the log unchanged and sends nothing, and no connection ever has a
\* message:liked or an error event of it.
C17_SilentNoOp ==
    /\ [][\A s \in Sockets, k \in 1..MaxLikes :
             LikeDropped(s, k) => chatMessages' = chatMessages /\ received' = received]_vars
    /\ [](\A o \in OpsOfKind("message:like") :
             Op(o).outcome \in {"no session", "not found"}
                => \A t \in Sockets : ~Got(t, "message:liked", o) /\ ~Got(t, "error", o))

\* A connection without a session liked the stored message, and a joined
\* connection liked a message that does not exist, while a third like by a
\* joined connection was written.
C17_Witness ==
    /\ \E o \in OpsOfKind("message:like") :
          Op(o).outcome = "no session" /\ Op(o).messageId \in DOMAIN chatMessages
    /\ \E o \in OpsOfKind("message:like") : Op(o).outcome = "not found"
    /\ \E o \in OpsOfKind("message:like") : Op(o).outcome = "ok"

\* The step ends the k-th event of connection s, a disconnect, with the
\* presence write acknowledged.
DisconnectAcknowledged(s, k) ==
    /\ k \in DOMAIN ops[s]
    /\ ops[s][k].kind = "disconnect"
    /\ ops[s][k].pc # "done"
    /\ ops'[s][k].outcome = "ok"

\* C18: when the presence write of a disconnect succeeds, the presence
\* record of its user becomes isOnline = false, also when another
\* connection holds a session of the same user, and that session stays in
\* the registry.
C18_OfflineUnconditionally ==
    [][\A s \in Sockets, k \in 1..MaxEvents :
          DisconnectAcknowledged(s, k)
             => /\ ~chatPresence'[ops[s][k].userId].isOnline
                /\ \A t \in DOMAIN activeUsers \ {s} :
                      /\ t \in DOMAIN activeUsers'
                      /\ activeUsers'[t] = activeUsers[t]]_vars

\* A user joined on two connections, one of them disconnected and its
\* presence write went through: the user is offline and the other
\* connection, still open, holds its session.
C18_Witness ==
    \E s \in Sockets : \E t \in Sockets \ {s} : \E k \in DOMAIN ops[s] :
       /\ ops[s][k].kind = "disconnect"
       /\ ops[s][k].outcome = "ok"
       /\ status[t] = "connected"
       /\ t \in DOMAIN activeUsers
       /\ activeUsers[t].userId = ops[s][k].userId
       /\ ~chatPresence[ops[s][k].userId].isOnline

\* The k-th event of connection s is a user:join whose presence write
\* failed.
JoinFailedAt(s, k) ==
    /\ k \in DOMAIN ops[s]
    /\ ops[s][k].kind = "user:join"
    /\ ops[s][k].outcome = "failed"

\* C19: a user:join whose presence write failed is not rolled back.  The
\* connection, if still open, has the error 'Failed to join chat' and its
\* entries in activeUsers and userRooms; a message:send it issues later
\* passes the identity check, and when its write succeeds the message is in
\* the log and the sender, in the hub, has its message:new.
C19_FailedJoinKeepsSession ==
    \A s \in Sockets : \A k \in DOMAIN ops[s] :
       (JoinFailedAt(s, k) /\ status[s] = "connected")
          => /\ \E n \in PacketsOf(s, "error", <<s, k>>) :
                   received[s][n].data.message = "Failed to join chat"
             /\ s \in DOMAIN activeUsers
             /\ s \in DOMAIN userRooms
             /\ \A k2 \in DOMAIN ops[s] :
                   (k2 > k /\ ops[s][k2].kind = "message:send")
                      => /\ ops[s][k2].outcome # "unauthenticated"
                         /\ ops[s][k2].outcome = "stored"
                               => /\ \E d \in DOMAIN chatMessages :
                                        chatMessages[d].id = <<s, k2>>
                                  /\ ops[s][k2].roomId = PublicHub
                                        => Got(s, "message:new", <<s, k2>>)

\* The only user:join of a connection failed, and a message it sent to the
\* hub afterwards was stored and came back to it and to the other
\* connection of the hub.
C19_Witness ==
    \E s \in Sockets : \E t \in Sockets \ {s} : \E k \in DOMAIN ops[s] :
       /\ JoinFailedAt(s, k)
       /\ \A j \in DOMAIN ops[s] : ops[s][j].kind = "user:join" => j = k
       /\ \E k2 \in DOMAIN ops[s] :
             /\ k2 > k
             /\ ops[s][k2].kind = "message:send"
             /\ ops[s][k2].outcome = "stored"
             /\ Got(s, "message:new", <<s, k2>>)
             /\ Got(t, "message:new", <<s, k2>>)

\* The creation times and the ids of the messages of a response.
TimesOf(messages) == {messages[a].createdAt : a \in DOMAIN messages}
IdsOf(messages) == {messages[a].firebaseId : a \in DOMAIN messages}

\* C20: when a messages:history response for a room is not empty and the
\* next request passes the id of its oldest message as lastMessageId, on a
\* log of distinct creation times that is not written to, every message of
\* the second response is older than every message of the first, and every
\* message of the room created between the oldest of the second and the
\* newest of the first is in one of the two.
C20_PagingNeitherRepeatsNorSkips ==
    \A t \in Sockets : \A n1, n2 \in Responses(t) :
       LET first == received[t][n1].data
           second == received[t][n2].data
           op1 == Op(received[t][n1].op)
           op2 == Op(received[t][n2].op)
       IN (/\ n1 < n2
           /\ first # <<>>
           /\ op2.lastMessageId = <<first[1].firebaseId>>
           /\ op2.roomId = op1.roomId
           /\ op2.limit = op1.limit
           /\ DistinctTimes)
             => /\ \A a \in TimesOf(second), b \in TimesOf(first) : a < b
                /\ \A d \in RoomDocs(op1.roomId) :
                      (\E a \in TimesOf(second), b \in TimesOf(first) :
                          a <= chatMessages[d].createdAt /\ chatMessages[d].createdAt <= b)
                         => d \in IdsOf(first) \cup IdsOf(second)

\* Two pages of one message each, with a message of another room created
\* between them.
C20_Witness ==
    \E t \in Sockets : \E n1, n2 \in Responses(t) :
       LET first == received[t][n1].data
           second == received[t][n2].data
       IN /\ n1 < n2
          /\ DistinctTimes
          /\ Len(first) = 1 /\ Len(second) = 1
          /\ Op(received[t][n2].op).lastMessageId = <<first[1].firebaseId>>
          /\ \E d \in DOMAIN chatMessages :
                /\ chatMessages[d].roomId # first[1].roomId
                /\ second[1].createdAt < chatMessages[d].createdAt
                /\ chatMessages[d].createdAt < first[1].createdAt
====
